---------------------------- MODULE Spec2Model ----------------------------
(***************************************************************************)
(* A state-machine model of tflite::MicroAllocator                         *)
(* (src/src/tensorflow/lite/micro/micro_allocator.cc): the two-phase model *)
(* allocation protocol (StartModelAllocation / FinishModelAllocation), the *)
(* scratch buffer registration in between, the allocation-info builder,    *)
(* the plan creation and commit, and the tensor allocation entry points.   *)
(*                                                                         *)
(* The dual-cursor arena (SimpleMemoryAllocator) and the greedy planner    *)
(* (GreedyMemoryPlanner) are collaborators whose code is in other files;   *)
(* they are modelled from the design specification (sections 4.1 and 4.4). *)
(*                                                                         *)
(* Addresses are integers. NULL is 0. Tensor, input and operator indices   *)
(* are 0-based as in the source; sequences are 1-based, so element i of a  *)
(* flatbuffer vector v is v[i + 1].                                        *)
(***************************************************************************)
EXTENDS Integers, Sequences, FiniteSets, TLC

(***************************************************************************)
(* Program constants                                                       *)
(***************************************************************************)
kBufferAlignment == 16
kOnlinePlannedBuffer == -1
NULL == 0

\* kOfflineMemAllocMetadata[] = "OfflineMemoryAllocation"
kOfflineMemAllocMetadata ==
  << "O","f","f","l","i","n","e","M","e","m","o","r","y",
     "A","l","l","o","c","a","t","i","o","n" >>

\* Object sizes and alignments of the 32-bit target (ESP32, ILP32).
SizeofAllocationInfo == 24
SizeofScratchBufferHandle == 12
SizeofTfLiteEvalTensor == 12
SizeofNodeAndRegistration == 40
SizeofMicroAllocator == 24
SizeofTfLiteTensor == 64
SizeofTfLiteAffineQuantization == 12
SizeofInt == 4
AlignofStruct == 4
\* size_t and int are 32 bits wide on the target. TLC's integers are
\* 32-bit signed, so the model gives both types 30 bits: every address and
\* size of the model is far below 2^29, and a negative difference converted
\* to size_t still wraps to a value above every size of the model.
SizeModulus == 2 ^ 30

\* Conversion of a size_t value to int (two's complement).
ToInt32(u) == IF u >= SizeModulus \div 2 THEN u - SizeModulus ELSE u
\* Conversion of an integer to size_t.
ToSizeT(i) == i % SizeModulus

(***************************************************************************)
(* memory_helpers: AlignPointerUp, AlignPointerDown, AlignSizeUp           *)
(***************************************************************************)
AlignPointerUp(data, alignment) == ((data + alignment - 1) \div alignment) * alignment
AlignPointerDown(data, alignment) == (data \div alignment) * alignment
AlignSizeUp(size, alignment) == ((size + alignment - 1) \div alignment) * alignment

Max(a, b) == IF a >= b THEN a ELSE b

(***************************************************************************)
(* The dual-cursor arena (SimpleMemoryAllocator), a record                 *)
(*   [buffer_head_, buffer_tail_, head_, tail_, temp_]                     *)
(* Each operation returns the arena after the call with its result.        *)
(***************************************************************************)
NewSimpleMemoryAllocator(bhead, btail) ==
  [buffer_head_ |-> bhead, buffer_tail_ |-> btail,
   head_ |-> bhead, tail_ |-> btail, temp_ |-> bhead]

\* A tail allocation that is not checked against the head cursor.
AllocateFromTailUnchecked(a, size, alignment) ==
  [ptr |-> AlignPointerDown(a.tail_ - size, alignment),
   arena |-> [a EXCEPT !.tail_ = AlignPointerDown(a.tail_ - size, alignment)]]

\* from_tail: moves the tail cursor down, rounds down to the alignment;
\* null when that would cross the head cursor.
AllocateFromTail(a, size, alignment) ==
  LET aligned_result == AlignPointerDown(a.tail_ - size, alignment)
  IN  IF aligned_result < a.head_
        THEN [ptr |-> NULL, arena |-> a]
        ELSE [ptr |-> aligned_result, arena |-> [a EXCEPT !.tail_ = aligned_result]]

\* ensure_head: reserves the first size bytes of the head region, moving
\* the head cursor to max(current, base + size); valid only while no temp
\* allocation is live; fails when the reservation would cross the tail.
EnsureHeadSize(a, size, alignment) ==
  LET aligned_result == AlignPointerUp(a.buffer_head_, alignment)
      new_head == Max(a.head_, aligned_result + size)
  IN  IF a.head_ # a.temp_
        THEN [ok |-> FALSE, arena |-> a]
        ELSE IF a.tail_ - aligned_result < size
          THEN [ok |-> FALSE, arena |-> a]
          ELSE [ok |-> TRUE, arena |-> [a EXCEPT !.head_ = new_head, !.temp_ = new_head]]

\* allocate_temp: allocates above the temp watermark, below the tail.
AllocateTemp(a, size, alignment) ==
  LET aligned_result == AlignPointerUp(a.temp_, alignment)
  IN  IF a.tail_ - aligned_result < size
        THEN [ptr |-> NULL, arena |-> a]
        ELSE [ptr |-> aligned_result, arena |-> [a EXCEPT !.temp_ = aligned_result + size]]

\* reset_temp: the watermark returns to the head cursor.
ResetTemp(a) == [a EXCEPT !.temp_ = a.head_]

GetBufferHead(a) == a.buffer_head_
GetTail(a) == a.tail_

\* The aligned slack between the temp watermark and the tail, as a size_t.
GetAvailableMemory(a, alignment) ==
  ToSizeT(AlignPointerDown(a.tail_, alignment) - AlignPointerUp(a.temp_, alignment))

GetUsedBytes(a) == (a.buffer_tail_ - a.buffer_head_) - (a.tail_ - a.temp_)

(***************************************************************************)
(* The serialized model (the flatbuffer), as far as the allocator reads it *)
(***************************************************************************)
\* A tensor: its byte length (TfLiteEvalTensorByteLength of its type and
\* shape), the is_variable flag, its buffer ("nodata": no data vector,
\* "empty": a data vector of size 0, "data": at least one byte), whether
\* ConvertTensorType knows its type, and its number of quantization channels.
Tensor(bytes, is_variable, buffer) ==
  [bytes |-> bytes, is_variable |-> is_variable, buffer |-> buffer,
   type_ok |-> TRUE, channels |-> 0]

\* An operator: input and output tensor indices, whether the resolver has a
\* registration and a parser for it, and the bytes its parser allocates.
Operator(inputs, outputs) ==
  [inputs |-> inputs, outputs |-> outputs, registered |-> TRUE, builtin_bytes |-> 0]

\* A metadata entry: its name, and the 32-bit words of its buffer:
\* version, subgraph index, number of offsets, the offsets.
Metadata(name, nbr, offsets) ==
  [name |-> name, version |-> 1, subgraph |-> 0, nbr |-> nbr, offsets |-> offsets]

OfflinePlan(offsets) == << Metadata(kOfflineMemAllocMetadata, Len(offsets), offsets) >>

\* Where the serialized model lies in memory (outside the arena).
ModelAddress == 65536
\* The address of the data of the buffer of tensor i.
FlatbufferData(i) == ModelAddress + kBufferAlignment * i

\* t0 -> op0 -> t1 -> op1 -> t2 -> op2 -> t3
ChainOperators ==
  << Operator(<<0>>, <<1>>), Operator(<<1>>, <<2>>), Operator(<<2>>, <<3>>) >>

ChainModel(id, sizes, variable, metadata) ==
  [id |-> id, subgraphs |-> 1,
   tensors |-> [i \in 1..4 |-> Tensor(sizes[i], (i - 1) \in variable, "nodata")],
   inputs |-> <<0>>, outputs |-> <<3>>,
   operators |-> ChainOperators, metadata |-> metadata]

\* t0, w (constant weights) -> op0 -> t2; e is a tensor with an empty buffer
\* that op0 also reads.
WeightsModel ==
  [id |-> "weights", subgraphs |-> 1,
   tensors |-> << Tensor(32, FALSE, "nodata"), Tensor(48, FALSE, "data"),
                  Tensor(20, FALSE, "nodata"), Tensor(8, FALSE, "empty"),
                  Tensor(12, TRUE, "data") >>,
   inputs |-> <<0>>, outputs |-> <<2>>,
   operators |-> << Operator(<<0, 1, 3>>, <<2>>) >>,
   metadata |-> << >>]

\* One tensor that is input and output of a subgraph without operators.
NoOperatorModel ==
  [id |-> "no_operator", subgraphs |-> 1,
   tensors |-> << Tensor(16, FALSE, "nodata") >>,
   inputs |-> <<0>>, outputs |-> <<0>>,
   operators |-> << >>, metadata |-> << >>]

\* One tensor, quantized per channel (one channel), that a single operator
\* updates in place.
InPlaceModel ==
  [id |-> "in_place", subgraphs |-> 1,
   tensors |-> << [Tensor(100, FALSE, "nodata") EXCEPT !.channels = 1] >>,
   inputs |-> <<0>>, outputs |-> <<0>>,
   operators |-> << Operator(<<0>>, <<0>>) >>, metadata |-> << >>]

\* The same with a variable tensor next to it.
InPlaceVariableModel ==
  [id |-> "in_place_variable", subgraphs |-> 1,
   tensors |-> << [Tensor(100, FALSE, "nodata") EXCEPT !.channels = 1],
                  Tensor(8, TRUE, "nodata") >>,
   inputs |-> <<0>>, outputs |-> <<0>>,
   operators |-> << Operator(<<0>>, <<0>>) >>, metadata |-> << >>]

ChainSizes == <<100, 200, 150, 100>>
SmallSizes == <<16, 40, 20, 8>>

ModelSet ==
  { ChainModel("chain", ChainSizes, {}, << >>),
    ChainModel("pinned", SmallSizes, {2}, OfflinePlan(<<-1, 0, -1, 0>>)),
    ChainModel("collide", SmallSizes, {}, OfflinePlan(<<-1, 0, 16, -1>>)),
    ChainModel("misaligned", SmallSizes, {}, OfflinePlan(<<-1, 8, -1, -1>>)),
    ChainModel("short_plan", SmallSizes, {}, OfflinePlan(<<-1, 0, -1>>)),
    [ChainModel("bad_version", SmallSizes, {}, OfflinePlan(<<-1, 0, -1, -1>>))
       EXCEPT !.metadata[1].version = 2],
    [ChainModel("two_subgraphs", SmallSizes, {}, << >>) EXCEPT !.subgraphs = 2],
    WeightsModel, NoOperatorModel, InPlaceModel, InPlaceVariableModel }

NoModel == [id |-> "none"]

(***************************************************************************)
(* The greedy interval-packing planner (GreedyMemoryPlanner).              *)
(* A buffer requirement is [size, first_time_used, last_time_used,         *)
(* offline_offset]; requirements are numbered in insertion order.          *)
(***************************************************************************)
BufferRequirement(size, first, last, offline_offset) ==
  [size |-> size, first_time_used |-> first, last_time_used |-> last,
   offline_offset |-> offline_offset]

IsFixed(r) == r.offline_offset # kOnlinePlannedBuffer

SetMin(S) == CHOOSE x \in S : \A y \in S : x <= y
SetMax(S) == CHOOSE x \in S : \A y \in S : x >= y

\* The free buffer to place next among `left`: the largest, the earliest
\* inserted among equals.
NextFree(reqs, left) ==
  CHOOSE i \in left : \A j \in left :
    \/ reqs[i].size > reqs[j].size
    \/ reqs[i].size = reqs[j].size /\ i <= j

\* The lowest offset at which a buffer of `size` with lifetime [first, last]
\* intersects no placed buffer whose lifetime intersects [first, last].
FirstFit(reqs, offsets, placed, size, first, last) ==
  LET live == { j \in placed : reqs[j].first_time_used <= last
                               /\ reqs[j].last_time_used >= first }
      fits(c) == \A j \in live : \/ c + size <= offsets[j]
                                 \/ offsets[j] + reqs[j].size <= c
      candidates == {0} \cup { offsets[j] + reqs[j].size : j \in live }
  IN  SetMin({ c \in candidates : c >= 0 /\ fits(c) })

RECURSIVE PlaceFree(_, _, _, _)
PlaceFree(reqs, offsets, placed, left) ==
  IF left = {} THEN offsets
  ELSE LET i == NextFree(reqs, left)
           o == FirstFit(reqs, offsets, placed, reqs[i].size,
                         reqs[i].first_time_used, reqs[i].last_time_used)
       IN  PlaceFree(reqs, [offsets EXCEPT ![i] = o], placed \cup {i}, left \ {i})

\* The offset of every buffer: fixed buffers at their given offsets,
\* unconditionally; free buffers largest first, first fit from below.
CalculateOffsets(reqs) ==
  LET fixed == { i \in 1..Len(reqs) : IsFixed(reqs[i]) }
      start == [i \in 1..Len(reqs) |->
                  IF i \in fixed THEN reqs[i].offline_offset ELSE 0]
  IN  PlaceFree(reqs, start, fixed, (1..Len(reqs)) \ fixed)

\* max_size(): the maximum offset + size over the placed buffers.
GetMaximumMemorySize(reqs, offsets) ==
  IF Len(reqs) = 0 THEN 0
  ELSE SetMax({ offsets[i] + reqs[i].size : i \in 1..Len(reqs) })

(***************************************************************************)
(* AllocationInfoBuilder                                                   *)
(* An AllocationInfo is [bytes, first_created, last_used, offline_offset,  *)
(* needs_allocating]; output_ptr is given by the entry's position: entry   *)
(* i < tensor_count writes eval_tensors[i].data, entry tensor_count + j    *)
(* writes the data field of scratch buffer handle j.                       *)
(***************************************************************************)
TensorCount(model) == Len(model.tensors)
OperatorCount(model) == Len(model.operators)

\* strncmp(name, kOfflineMemAllocMetadata, strlen(kOfflineMemAllocMetadata)) == 0
NameMatches(name) ==
  /\ Len(name) >= Len(kOfflineMemAllocMetadata)
  /\ SubSeq(name, 1, Len(kOfflineMemAllocMetadata)) = kOfflineMemAllocMetadata

\* The metadata loop from entry k on; `found` is *offline_planner_offsets
\* so far ([set |-> FALSE] is nullptr).
RECURSIVE OfflineOffsetsFrom(_, _, _, _)
OfflineOffsetsFrom(metadata, tensor_count, k, found) ==
  IF k > Len(metadata) THEN [status |-> "ok", offsets |-> found]
  ELSE IF NameMatches(metadata[k].name)
    THEN LET now == [set |-> TRUE, offsets |-> metadata[k].offsets]
         IN  IF tensor_count # metadata[k].nbr
               THEN [status |-> "error", offsets |-> now]
               ELSE OfflineOffsetsFrom(metadata, tensor_count, k + 1, now)
    ELSE OfflineOffsetsFrom(metadata, tensor_count, k + 1, found)

GetOfflinePlannedOffsets(model, tensor_count) ==
  OfflineOffsetsFrom(model.metadata, tensor_count, 1, [set |-> FALSE])

\* Lines 208-224: the entry of tensor i (0-based).
InitialInfo(model, offline, eval_data, i) ==
  [bytes |-> model.tensors[i + 1].bytes,
   first_created |-> -1,
   last_used |-> -1,
   needs_allocating |-> (eval_data[i + 1] = NULL) /\ ~model.tensors[i + 1].is_variable,
   offline_offset |-> IF offline.set THEN offline.offsets[i + 1]
                      ELSE kOnlinePlannedBuffer]

\* Lines 226-230 and 233-237: one pass over a vector of tensor indices.
RECURSIVE MarkEach(_, _, _, _, _)
MarkEach(info, indices, k, field, value) ==
  IF k > Len(indices) THEN info
  ELSE MarkEach([info EXCEPT ![indices[k] + 1][field] = value],
                indices, k + 1, field, value)

\* Lines 251-257: the inner loop over all inputs of the operator.
RECURSIVE InitializeOpInputs(_, _, _, _)
InitializeOpInputs(info, inputs, i, k) ==
  IF k > Len(inputs) THEN info
  ELSE LET t == inputs[k] + 1
       IN  InitializeOpInputs(
             IF info[t].needs_allocating /\ info[t].first_created = -1
               THEN [info EXCEPT ![t].first_created = i] ELSE info,
             inputs, i, k + 1)

\* An input loop that sets last_used without comparing it.
RECURSIVE VisitInputsOverwriting(_, _, _, _)
VisitInputsOverwriting(info, inputs, i, n) ==
  IF n > Len(inputs) THEN info
  ELSE LET t == inputs[n] + 1
           a == IF info[t].first_created = 0
                  THEN InitializeOpInputs(info, inputs, i, 1) ELSE info
       IN  VisitInputsOverwriting([a EXCEPT ![t].last_used = i], inputs, i, n + 1)

\* Lines 242-263: the loop over the inputs of operator i, from input n on.
RECURSIVE VisitInputs(_, _, _, _)
VisitInputs(info, inputs, i, n) ==
  IF n > Len(inputs) THEN info
  ELSE LET t == inputs[n] + 1
           a == IF info[t].first_created = 0
                  THEN InitializeOpInputs(info, inputs, i, 1) ELSE info
           b == IF a[t].last_used = -1 \/ a[t].last_used < i
                  THEN [a EXCEPT ![t].last_used = i] ELSE a
       IN  VisitInputs(b, inputs, i, n + 1)

\* An output loop that sets first_created without comparing it.
RECURSIVE VisitOutputsOverwriting(_, _, _, _)
VisitOutputsOverwriting(info, outputs, i, n) ==
  IF n > Len(outputs) THEN info
  ELSE VisitOutputsOverwriting(
         [info EXCEPT ![outputs[n] + 1].first_created = i], outputs, i, n + 1)

\* Lines 264-270: the loop over the outputs of operator i.
RECURSIVE VisitOutputs(_, _, _, _)
VisitOutputs(info, outputs, i, n) ==
  IF n > Len(outputs) THEN info
  ELSE LET t == outputs[n] + 1
       IN  VisitOutputs(
             IF info[t].first_created = -1 \/ info[t].first_created > i
               THEN [info EXCEPT ![t].first_created = i] ELSE info,
             outputs, i, n + 1)

\* Lines 240-271: operators i, i - 1, ..., 0.
RECURSIVE VisitOperators(_, _, _)
VisitOperators(info, operators, i) ==
  IF i < 0 THEN info
  ELSE VisitOperators(
         VisitOutputs(VisitInputs(info, operators[i + 1].inputs, i, 1),
                      operators[i + 1].outputs, i, 1),
         operators, i - 1)

IsReadOnly(e) == e.first_created = -1 /\ e.last_used # -1
HasPartialLifetime(e) ==
  ~IsReadOnly(e) /\ (e.first_created = -1 \/ e.last_used = -1)

\* Lifetimes that span the whole graph for every tensor.
DeriveLifetimesWholeGraph(model, info) ==
  [i \in 1..Len(info) |->
     [info[i] EXCEPT !.first_created = 0,
                     !.last_used = OperatorCount(model) - 1]]

\* Lines 226-271.
DeriveLifetimes(model, info) ==
  LET last == ToInt32(ToSizeT(OperatorCount(model) - 1))
      a == MarkEach(info, model.inputs, 1, "first_created", 0)
      b == MarkEach(a, model.outputs, 1, "last_used", last)
  IN  VisitOperators(b, model.operators, last)

\* AddTensors: the tensor entries, or the lifetime error.
AddTensors(model, offline, eval_data) ==
  LET n == TensorCount(model)
      init == [i \in 1..n |-> InitialInfo(model, offline, eval_data, i - 1)]
      lived == DeriveLifetimes(model, init)
      final == [i \in 1..n |->
                  IF IsReadOnly(lived[i])
                    THEN [lived[i] EXCEPT !.needs_allocating = FALSE]
                    ELSE lived[i]]
  IN  IF \E i \in 1..n : HasPartialLifetime(final[i]) /\ final[i].needs_allocating
        THEN [status |-> "error", info |-> final]
        ELSE [status |-> "ok", info |-> final]

\* Scratch entries that all live at the first node.
AddScratchBuffersAtFirstNode(info, buffer_handles) ==
  info \o [j \in 1..Len(buffer_handles) |->
             [bytes |-> buffer_handles[j].bytes,
              first_created |-> 0,
              last_used |-> 0,
              offline_offset |-> kOnlinePlannedBuffer,
              needs_allocating |-> TRUE]]

\* AddScratchBuffers: one entry per scratch buffer handle.
AddScratchBuffers(info, buffer_handles) ==
  info \o [j \in 1..Len(buffer_handles) |->
             [bytes |-> buffer_handles[j].bytes,
              first_created |-> buffer_handles[j].node_idx,
              last_used |-> buffer_handles[j].node_idx,
              offline_offset |-> kOnlinePlannedBuffer,
              needs_allocating |-> TRUE]]

(***************************************************************************)
(* CreatePlan and CommitPlan                                               *)
(***************************************************************************)
\* The positions (1-based) of the entries with needs_allocating, in order.
Planned(info) == { i \in 1..Len(info) : info[i].needs_allocating }

\* A planner index counted from the last planned entry.
PlannerIndexFromEnd(info, i) == Cardinality({ j \in Planned(info) : j > i })

\* The planner index (0-based) of entry i: the number of planned entries
\* before it.
PlannerIndex(info, i) == Cardinality({ j \in Planned(info) : j < i })

\* A plan whose buffers are all planned online.
RECURSIVE CreatePlanIgnoringOffline(_)
CreatePlanIgnoringOffline(info) ==
  IF Len(info) = 0 THEN << >>
  ELSE LET current == info[Len(info)]
           before == CreatePlanIgnoringOffline(SubSeq(info, 1, Len(info) - 1))
       IN  IF current.needs_allocating
             THEN Append(before,
                    BufferRequirement(AlignSizeUp(current.bytes, kBufferAlignment),
                                      current.first_created, current.last_used,
                                      kOnlinePlannedBuffer))
             ELSE before

\* CreatePlan: the requirements added to the planner, in order.
RECURSIVE CreatePlan(_)
CreatePlan(info) ==
  IF Len(info) = 0 THEN << >>
  ELSE LET current == info[Len(info)]
           before == CreatePlan(SubSeq(info, 1, Len(info) - 1))
       IN  IF current.needs_allocating
             THEN Append(before,
                    BufferRequirement(AlignSizeUp(current.bytes, kBufferAlignment),
                                      current.first_created, current.last_used,
                                      current.offline_offset))
             ELSE before

\* CommitPlan: the address written through output_ptr of entry i.
CommittedAddress(info, offsets, starting_point, i) ==
  starting_point + offsets[PlannerIndex(info, i) + 1]

(***************************************************************************)
(* Bounds of the model                                                     *)
(***************************************************************************)
\* Calls of StartModelAllocation in one behaviour.
MaxBegins == 2
\* Calls of FinishModelAllocation.
MaxEnds == 2
\* Scratch buffers registered since the last InitScratchBufferHandles.
MaxScratch == 2
\* Calls of AllocatePersistentBuffer and of the tensor allocation functions.
MaxAllocs == 1

\* The caller's arena: its address and its size in bytes.
TensorArenas == {64}
ArenaSizes == {160, 176, 1024}
ScratchSizes == {24}
\* The nodes whose kernels register scratch buffers.
NodeIds == {0}
PersistentSizes == {10}

(***************************************************************************)
(* State                                                                   *)
(***************************************************************************)
VARIABLES
  memory_allocator_,        \* the arena: buffer_head_, buffer_tail_, head_, tail_, temp_
  model_is_allocating_,     \* MicroAllocator::model_is_allocating_
  scratch_buffer_handles_,  \* MicroAllocator::scratch_buffer_handles_ (an address)
  scratch_buffer_count_,    \* MicroAllocator::scratch_buffer_count_
  handles,                  \* the handle records at scratch_buffer_handles_
  model,                    \* the model the driver is allocating
  eval_tensors,             \* the driver's TfLiteEvalTensor* (an address)
  eval_data,                \* eval_tensors[i].data.data
  allocation_info,          \* the array built by the latest CommitStaticMemoryPlan
  ret,                      \* the latest call and what it returned
  halted,                   \* "no", or why the program stopped
  n_begin,                  \* calls of StartModelAllocation so far
  n_alloc,                  \* calls of the allocation functions so far
  n_end,                    \* calls of FinishModelAllocation so far
  FLATBUFFERS_LITTLEENDIAN  \* the byte order the program was built for

vars == << memory_allocator_, model_is_allocating_, scratch_buffer_handles_,
           scratch_buffer_count_, handles, model, eval_tensors, eval_data,
           allocation_info, ret, halted, n_begin, n_alloc, n_end,
           FLATBUFFERS_LITTLEENDIAN >>

Ret(op, status, why, value) ==
  [op |-> op, status |-> status, why |-> why, value |-> value]

\* MicroAllocator::Create(tensor_arena, arena_size, error_reporter), and the
\* placement of the MicroAllocator object at the tail (lines 630-656).
Create(tensor_arena, arena_size) ==
  LET aligned_arena == AlignPointerUp(tensor_arena, kBufferAlignment)
      aligned_arena_size == ToSizeT(tensor_arena + arena_size - aligned_arena)
      whole == NewSimpleMemoryAllocator(aligned_arena, aligned_arena + aligned_arena_size)
  IN  AllocateFromTail(whole, SizeofMicroAllocator, AlignofStruct)

Init ==
  \E tensor_arena \in TensorArenas, arena_size \in ArenaSizes :
    LET made == Create(tensor_arena, arena_size)
    IN  /\ memory_allocator_ = made.arena
        /\ model_is_allocating_ = FALSE
        /\ scratch_buffer_handles_ = NULL
        /\ scratch_buffer_count_ = 0
        /\ handles = << >>
        /\ model = NoModel
        /\ eval_tensors = NULL
        /\ eval_data = << >>
        /\ allocation_info = << >>
        /\ ret = Ret("create", "ok", "", made.ptr)
        /\ halted = IF made.ptr = NULL THEN "fault" ELSE "no"
        /\ n_begin = 0
        /\ n_alloc = 0
        /\ n_end = 0
        /\ FLATBUFFERS_LITTLEENDIAN \in BOOLEAN

(***************************************************************************)
(* StartModelAllocation                                                    *)
(***************************************************************************)
\* FlatBufferVectorToTfLiteTypeArray: the tail bytes the array takes (none
\* on a little-endian target, where the flatbuffer vector is aliased).
TfLiteIntArrayGetSizeInBytes(size) == SizeofInt + SizeofInt * size
ArrayCopyBytes(length) ==
  IF FLATBUFFERS_LITTLEENDIAN THEN 0 ELSE TfLiteIntArrayGetSizeInBytes(length)

\* A lookup that takes every data vector, an empty one included.
GetFlatbufferTensorBufferOfAnyVector(model_, i) ==
  IF model_.tensors[i + 1].buffer \in {"data", "empty"}
    THEN FlatbufferData(i) ELSE NULL

\* GetFlatbufferTensorBuffer: the data of the tensor's buffer, or null when
\* the buffer has no data vector or an empty one.
GetFlatbufferTensorBuffer(model_, i) ==
  IF model_.tensors[i + 1].buffer = "data" THEN FlatbufferData(i) ELSE NULL

\* Tail allocations made one after the other; stops at the first failure.
\* `steps` is a sequence of [size, ok]: a step with ok = FALSE is a check
\* that fails without allocating (an unknown type, a missing registration).
RECURSIVE AllocateEach(_, _, _)
AllocateEach(a, steps, k) ==
  IF k > Len(steps) THEN [ok |-> TRUE, arena |-> a, failed |-> 0]
  ELSE IF ~steps[k].ok THEN [ok |-> FALSE, arena |-> a, failed |-> k]
  ELSE IF steps[k].size = 0 THEN AllocateEach(a, steps, k + 1)
  ELSE LET r == AllocateFromTail(a, steps[k].size, AlignofStruct)
       IN  IF r.ptr = NULL THEN [ok |-> FALSE, arena |-> a, failed |-> k]
           ELSE AllocateEach(r.arena, steps, k + 1)

\* AllocateTfLiteEvalTensors after the table is allocated (lines 954-963):
\* per tensor, the type conversion and the dims array.
EvalTensorSteps(model_) ==
  [i \in 1..TensorCount(model_) |->
     [size |-> ArrayCopyBytes(1), ok |-> model_.tensors[i].type_ok]]

\* PrepareNodeAndRegistrationDataFromFlatbuffer (lines 786-861): per
\* operator, the registration and parser lookup with the parser's
\* allocation, then the input and the output array.
RECURSIVE NodeSteps(_, _)
NodeSteps(model_, k) ==
  IF k > OperatorCount(model_) THEN << >>
  ELSE LET op == model_.operators[k]
       IN  << [size |-> op.builtin_bytes, ok |-> op.registered],
              [size |-> ArrayCopyBytes(Len(op.inputs)), ok |-> TRUE],
              [size |-> ArrayCopyBytes(Len(op.outputs)), ok |-> TRUE] >>
           \o NodeSteps(model_, k + 1)

\* Lines 673-680: InitScratchBufferHandles, AllocateTfLiteEvalTensors,
\* AllocateNodeAndRegistrations and
\* PrepareNodeAndRegistrationDataFromFlatbuffer, with the driver's fresh
\* eval tensor pointer.
AllocateModel(m) ==
  /\ scratch_buffer_count_' = 0
  /\ scratch_buffer_handles_' = NULL
  /\ handles' = << >>
  /\ model' = m
  /\ UNCHANGED << allocation_info, n_alloc, n_end >>
  /\ IF m.subgraphs # 1
       THEN \* GetSubGraphFromModel returns nullptr (line 1017); the caller
            \* only DCHECKs it (line 940): a debug build aborts, a release
            \* build dereferences the null pointer.
            /\ halted' \in {"abort", "fault"}
            /\ ret' = Ret("begin", "none", "subgraphs", NULL)
            /\ eval_tensors' = NULL
            /\ eval_data' = << >>
            /\ UNCHANGED memory_allocator_
       ELSE
         LET table == AllocateFromTail(memory_allocator_,
                        SizeofTfLiteEvalTensor * TensorCount(m), AlignofStruct)
             each == AllocateEach(table.arena, EvalTensorSteps(m), 1)
             nodes == AllocateFromTail(each.arena,
                        SizeofNodeAndRegistration * OperatorCount(m), AlignofStruct)
             prepared == AllocateEach(nodes.arena, NodeSteps(m, 1), 1)
             data == [i \in 1..TensorCount(m) |-> GetFlatbufferTensorBuffer(m, i - 1)]
         IN  /\ halted' = "no"
             /\ IF table.ptr = NULL
                  THEN /\ ret' = Ret("begin", "error", "eval_tensors", NULL)
                       /\ eval_tensors' = NULL
                       /\ eval_data' = << >>
                       /\ memory_allocator_' = table.arena
                  ELSE IF ~each.ok
                    THEN /\ ret' = Ret("begin", "error", "tensor", NULL)
                         /\ eval_tensors' = NULL
                         /\ eval_data' = << >>
                         /\ memory_allocator_' = each.arena
                    ELSE IF nodes.ptr = NULL
                      THEN /\ ret' = Ret("begin", "error", "nodes", NULL)
                           /\ eval_tensors' = table.ptr
                           /\ eval_data' = data
                           /\ memory_allocator_' = nodes.arena
                      ELSE IF ~prepared.ok
                        THEN /\ ret' = Ret("begin", "error", "prepare", NULL)
                             /\ eval_tensors' = table.ptr
                             /\ eval_data' = data
                             /\ memory_allocator_' = prepared.arena
                        ELSE /\ ret' = Ret("begin", "ok", "", NULL)
                             /\ eval_tensors' = table.ptr
                             /\ eval_data' = data
                             /\ memory_allocator_' = prepared.arena

\* A begin that sets model_is_allocating_ only once every step succeeded.
BeginAllocationFlagOnSuccess(m) ==
  /\ AllocateModel(m)
  /\ model_is_allocating_' = (ret'.status = "ok")

\* Lines 671-680: StartModelAllocation once the check of
\* model_is_allocating_ has passed.
BeginAllocation(m) ==
  /\ model_is_allocating_' = TRUE
  /\ AllocateModel(m)

\* StartModelAllocation without the check of model_is_allocating_.
StartModelAllocationUnguarded(m) ==
  /\ halted = "no"
  /\ n_begin < MaxBegins
  /\ n_begin' = n_begin + 1
  /\ BeginAllocation(m)

StartModelAllocation(m) ==
  /\ halted = "no"
  /\ n_begin < MaxBegins
  /\ n_begin' = n_begin + 1
  /\ IF model_is_allocating_
       THEN \* lines 664-669
            /\ ret' = Ret("begin", "error", "already_allocating", NULL)
            /\ UNCHANGED << memory_allocator_, model_is_allocating_,
                            scratch_buffer_handles_, scratch_buffer_count_, handles,
                            model, eval_tensors, eval_data, allocation_info,
                            halted, n_alloc, n_end >>
       ELSE BeginAllocation(m)

(***************************************************************************)
(* RequestScratchBufferInArena, AllocatePersistentBuffer                   *)
(***************************************************************************)
\* A request that numbers the scratch buffers from 1.
RequestScratchBufferInArenaFromOne(node_id, bytes) ==
  LET grown == EnsureHeadSize(memory_allocator_,
                 SizeofScratchBufferHandle * (scratch_buffer_count_ + 1), AlignofStruct)
  IN  /\ halted = "no"
      /\ scratch_buffer_count_ < MaxScratch
      /\ UNCHANGED << model_is_allocating_, model, eval_tensors, eval_data,
                      allocation_info, halted, n_begin, n_alloc, n_end >>
      /\ IF ~grown.ok
           THEN /\ ret' = Ret("request_scratch", "error", "head", NULL)
                /\ UNCHANGED << memory_allocator_, scratch_buffer_handles_,
                                scratch_buffer_count_, handles >>
           ELSE /\ memory_allocator_' = grown.arena
                /\ scratch_buffer_handles_' =
                     IF scratch_buffer_handles_ = NULL
                       THEN GetBufferHead(grown.arena) ELSE scratch_buffer_handles_
                /\ handles' = Append(handles,
                                [bytes |-> bytes, node_idx |-> node_id, data |-> NULL])
                /\ scratch_buffer_count_' = scratch_buffer_count_ + 1
                /\ ret' = Ret("request_scratch", "ok", "", scratch_buffer_count_ + 1)

\* Lines 711-739. The handle is written at
\* scratch_buffer_handles_ + scratch_buffer_count_.
RequestScratchBufferInArena(node_id, bytes) ==
  LET grown == EnsureHeadSize(memory_allocator_,
                 SizeofScratchBufferHandle * (scratch_buffer_count_ + 1), AlignofStruct)
  IN  /\ halted = "no"
      /\ scratch_buffer_count_ < MaxScratch
      /\ UNCHANGED << model_is_allocating_, model, eval_tensors, eval_data,
                      allocation_info, halted, n_begin, n_alloc, n_end >>
      /\ IF ~grown.ok
           THEN /\ ret' = Ret("request_scratch", "error", "head", NULL)
                /\ UNCHANGED << memory_allocator_, scratch_buffer_handles_,
                                scratch_buffer_count_, handles >>
           ELSE /\ memory_allocator_' = grown.arena
                /\ scratch_buffer_handles_' =
                     IF scratch_buffer_handles_ = NULL
                       THEN GetBufferHead(grown.arena) ELSE scratch_buffer_handles_
                /\ handles' = Append(handles,
                                [bytes |-> bytes, node_idx |-> node_id, data |-> NULL])
                /\ scratch_buffer_count_' = scratch_buffer_count_ + 1
                /\ ret' = Ret("request_scratch", "ok", "", scratch_buffer_count_)

\* Lines 707-709.
AllocatePersistentBuffer(bytes) ==
  LET r == AllocateFromTail(memory_allocator_, bytes, kBufferAlignment)
  IN  /\ halted = "no"
      /\ n_alloc < MaxAllocs
      /\ n_alloc' = n_alloc + 1
      /\ memory_allocator_' = r.arena
      /\ ret' = Ret("persistent_buffer", IF r.ptr = NULL THEN "null" ELSE "ok", "", r.ptr)
      /\ UNCHANGED << model_is_allocating_, scratch_buffer_handles_,
                      scratch_buffer_count_, handles, model, eval_tensors,
                      eval_data, allocation_info, halted, n_begin, n_end >>

\* GetScratchBuffer (lines 741-747): the data field of record buffer_idx of
\* the handle table, whose records are `table`.
GetScratchBuffer(table, buffer_idx) == table[buffer_idx + 1].data

(***************************************************************************)
(* FinishModelAllocation                                                   *)
(***************************************************************************)
\* MoveScratchBufferHandlesToTail (lines 1092-1107). The copy writes
\* through dest without a null check: `fault` when dest is null.
MoveScratchBufferHandlesToTail(a, handles_ptr, count) ==
  IF count = 0
    THEN [arena |-> a, dest |-> handles_ptr, fault |-> FALSE]
    ELSE LET r == AllocateFromTail(a, SizeofScratchBufferHandle * count, AlignofStruct)
         IN  [arena |-> r.arena, dest |-> r.ptr, fault |-> r.ptr = NULL]

\* A commit that writes no scratch buffer pointer.
CommitHandlesNowhere(info, offsets, starting_point, table, tensor_count) == table

\* The handle records with the data pointers CommitPlan writes.
CommitHandles(info, offsets, starting_point, table, tensor_count) ==
  [j \in 1..Len(table) |->
     [table[j] EXCEPT !.data =
        CommittedAddress(info, offsets, starting_point, tensor_count + j)]]

\* A commit that writes no tensor pointer.
CommitTensorsNowhere(info, offsets, starting_point, data) == data

\* The eval tensor data pointers with those CommitPlan writes.
CommitTensors(info, offsets, starting_point, data) ==
  [i \in 1..Len(data) |->
     IF info[i].needs_allocating
       THEN CommittedAddress(info, offsets, starting_point, i)
       ELSE data[i]]

\* What CommitStaticMemoryPlan leaves behind: its status, the main arena,
\* the data pointers, the allocation info it built, the planner's
\* GetMaximumMemorySize() (-1 when the plan was not computed) and the main
\* arena as it was when the size check was made.
PlanResult(status, why, a, data, table, info, needed, checked) ==
  [status |-> status, why |-> why, arena |-> a, eval_data |-> data,
   handles |-> table, info |-> info, needed |-> needed, checked |-> checked]

PlanError(why, a, data, table, info, needed) ==
  PlanResult("error", why, a, data, table, info, needed, a)

\* Lines 1047-1050: AddTensors has run.
BuildWithTensors(tmp, table, added) ==
  IF added.status # "ok"
    THEN [status |-> "error", why |-> "lifetime", info |-> << >>, arena |-> tmp]
    ELSE [status |-> "ok", why |-> "",
          info |-> AddScratchBuffers(added.info, table), arena |-> tmp]

\* Lines 1044-1048: GetOfflinePlannedOffsets has run. AddTensors DCHECKs
\* eval_tensors (line 205).
BuildWithOffsets(tmp, model_, tensors_ptr, data, table, offline) ==
  IF offline.status # "ok"
    THEN [status |-> "error", why |-> "offline_plan", info |-> << >>, arena |-> tmp]
  ELSE IF tensors_ptr = NULL
    THEN [status |-> "halt", why |-> "eval_tensors", info |-> << >>, arena |-> tmp]
  ELSE BuildWithTensors(tmp, table, AddTensors(model_, offline.offsets, data))

\* Lines 1040-1050: the allocation info array, built in tmp_allocator.
BuildAllocationInfo(tmp_allocator, model_, tensors_ptr, data, table) ==
  LET array == AllocateFromTail(tmp_allocator,
                 SizeofAllocationInfo * (TensorCount(model_) + Len(table)), AlignofStruct)
  IN  IF array.ptr = NULL
        THEN [status |-> "error", why |-> "allocation_info", info |-> << >>,
              arena |-> tmp_allocator]
        ELSE BuildWithOffsets(array.arena, model_, tensors_ptr, data, table,
                              GetOfflinePlannedOffsets(model_, TensorCount(model_)))

\* Lines 1075-1083: CommitPlan, then EnsureHeadSize(head_usage).
CommitGrown(a, data, table, info, needed, grown) ==
  PlanResult(IF grown.ok THEN "ok" ELSE "error", IF grown.ok THEN "" ELSE "head",
             grown.arena, data, table, info, needed, a)

\* Lines 1062-1083: the size check, the commit and the head reservation.
CommitOffsets(a, model_, data, table, info, offsets, needed) ==
  IF needed > GetAvailableMemory(a, kBufferAlignment)
    THEN PlanError("arena_too_small", a, data, table, info, needed)
    ELSE CommitGrown(a,
           CommitTensors(info, offsets, GetBufferHead(a), data),
           CommitHandles(info, offsets, GetBufferHead(a), table, TensorCount(model_)),
           info, needed, EnsureHeadSize(a, needed, kBufferAlignment))

\* Lines 1059-1060: CreatePlan has added `reqs` to the planner, whose
\* AddBuffer calls returned `planner_accepts`.
CommitPlanned(a, model_, data, table, info, reqs, offsets, planner_accepts) ==
  IF Len(reqs) > 0 /\ ~planner_accepts
    THEN PlanError("planner", a, data, table, info, -1)
    ELSE CommitOffsets(a, model_, data, table, info, offsets,
                       GetMaximumMemorySize(reqs, offsets))

CommitRequirements(a, model_, data, table, info, reqs, planner_accepts) ==
  CommitPlanned(a, model_, data, table, info, reqs, CalculateOffsets(reqs),
                planner_accepts)

\* Lines 1052-1060: the planner's working memory is the rest of tmp_allocator.
CommitBuilt(a, model_, data, table, built, planner_accepts) ==
  IF built.status # "ok"
    THEN PlanResult(built.status, built.why, a, data, table, << >>, -1, a)
  ELSE IF AllocateTemp(built.arena, GetAvailableMemory(built.arena, kBufferAlignment),
                       kBufferAlignment).ptr = NULL
    THEN PlanError("planner_arena", a, data, table, built.info, -1)
  ELSE CommitRequirements(a, model_, data, table, built.info,
                          CreatePlan(built.info), planner_accepts)

\* A planning step that takes the allocation info array from the tail of
\* the main arena.
CommitStaticMemoryPlanInMainArena(a, model_, tensors_ptr, data, table, planner_accepts) ==
  LET planned == CommitBuilt(a, model_, data, table,
                   BuildAllocationInfo(
                     NewSimpleMemoryAllocator(GetBufferHead(a), GetTail(a)),
                     model_, tensors_ptr, data, table),
                   planner_accepts)
  IN  [planned EXCEPT !.arena =
         AllocateFromTailUnchecked(planned.arena,
           SizeofAllocationInfo * (TensorCount(model_) + Len(table)),
           AlignofStruct).arena]

\* CommitStaticMemoryPlan (lines 1022-1084). `planner_accepts` is the
\* status of the planner's AddBuffer calls (lines 372-378).
CommitStaticMemoryPlan(a, model_, tensors_ptr, data, table, planner_accepts) ==
  CommitBuilt(a, model_, data, table,
    BuildAllocationInfo(NewSimpleMemoryAllocator(GetBufferHead(a), GetTail(a)),
                        model_, tensors_ptr, data, table),
    planner_accepts)

\* An AllocateVariables that allocates nothing.
AllocateVariablesSkipped(a, model_, data, i) ==
  [ok |-> TRUE, arena |-> a, eval_data |-> data]

\* AllocateVariables (lines 968-989), from tensor i (0-based) on.
RECURSIVE AllocateVariables(_, _, _, _)
AllocateVariables(a, model_, data, i) ==
  IF i >= TensorCount(model_) THEN [ok |-> TRUE, arena |-> a, eval_data |-> data]
  ELSE IF ~model_.tensors[i + 1].is_variable
    THEN AllocateVariables(a, model_, data, i + 1)
    ELSE LET r == AllocateFromTail(a, model_.tensors[i + 1].bytes, kBufferAlignment)
             written == [data EXCEPT ![i + 1] = r.ptr]
         IN  IF r.ptr = NULL
               THEN [ok |-> FALSE, arena |-> r.arena, eval_data |-> written]
               ELSE AllocateVariables(r.arena, model_, written, i + 1)

\* What FinishModelAllocation reports: *scratch_buffer_handles, and of the
\* plan the footprint and the arena at the size check.
EndValue(table_ptr, plan) ==
  [handles |-> table_ptr, needed |-> plan.needed, checked |-> plan.checked]

\* The report of a FinishModelAllocation that did not reach the plan.
NoPlan == [handles |-> NULL, needed |-> -1, checked |-> memory_allocator_]

\* Lines 697-704 after CommitStaticMemoryPlan and AllocateVariables.
FinishPlanned(dest, plan, variables) ==
  /\ scratch_buffer_handles_' = dest
  /\ handles' = plan.handles
  /\ allocation_info' = plan.info
  /\ UNCHANGED halted
  /\ IF plan.status = "error"
       THEN /\ ret' = Ret("end", "error", plan.why, EndValue(NULL, plan))
            /\ memory_allocator_' = plan.arena
            /\ eval_data' = plan.eval_data
            /\ UNCHANGED model_is_allocating_
       ELSE /\ memory_allocator_' = variables.arena
            /\ eval_data' = variables.eval_data
            /\ IF ~variables.ok
                 THEN /\ ret' = Ret("end", "error", "variables", EndValue(NULL, plan))
                      /\ UNCHANGED model_is_allocating_
                 ELSE /\ ret' = Ret("end", "ok", "", EndValue(dest, plan))
                      /\ model_is_allocating_' = FALSE

\* Lines 696-698.
FinishMoved(moved, plan) ==
  IF moved.fault
    THEN \* line 1103 writes through the null dest
         /\ halted' = "fault"
         /\ ret' = Ret("end", "none", "move_handles", NoPlan)
         /\ scratch_buffer_handles_' = NULL
         /\ UNCHANGED << memory_allocator_, model_is_allocating_, handles,
                         eval_data, allocation_info >>
  ELSE IF plan.status = "halt"
    THEN /\ halted' \in {"abort", "fault"}
         /\ ret' = Ret("end", "none", plan.why, NoPlan)
         /\ scratch_buffer_handles_' = moved.dest
         /\ memory_allocator_' = plan.arena
         /\ UNCHANGED << model_is_allocating_, handles, eval_data, allocation_info >>
  ELSE FinishPlanned(moved.dest, plan,
                     AllocateVariables(plan.arena, model, plan.eval_data, 0))

\* An end that plans with the handle table still in the head.
FinishAllocatingHandlesInHead(moved, planner_accepts) ==
  FinishMoved([moved EXCEPT !.dest = scratch_buffer_handles_,
                            !.arena = memory_allocator_],
    CommitStaticMemoryPlan(memory_allocator_, model, eval_tensors, eval_data,
                           handles, planner_accepts))

\* Lines 696-697: the plan is made in the arena the move left.
FinishAllocating(moved, planner_accepts) ==
  FinishMoved(moved,
    CommitStaticMemoryPlan(moved.arena, model, eval_tensors, eval_data, handles,
                           planner_accepts))

\* FinishModelAllocation without the check of model_is_allocating_.
FinishModelAllocationUnguarded(planner_accepts) ==
  /\ halted = "no"
  /\ model # NoModel
  /\ n_end < MaxEnds
  /\ n_end' = n_end + 1
  /\ UNCHANGED << scratch_buffer_count_, model, eval_tensors, n_begin, n_alloc >>
  /\ FinishAllocating(
       MoveScratchBufferHandlesToTail(memory_allocator_,
         scratch_buffer_handles_, scratch_buffer_count_),
       planner_accepts)

\* Lines 683-705.
FinishModelAllocation(planner_accepts) ==
  /\ halted = "no"
  /\ n_end < MaxEnds
  /\ n_end' = n_end + 1
  /\ UNCHANGED << scratch_buffer_count_, model, eval_tensors, n_begin, n_alloc >>
  /\ IF ~model_is_allocating_
       THEN \* lines 686-691
            /\ ret' = Ret("end", "error", "not_allocating", NoPlan)
            /\ UNCHANGED << memory_allocator_, model_is_allocating_,
                            scratch_buffer_handles_, handles, eval_data,
                            allocation_info, halted >>
       ELSE FinishAllocating(
              MoveScratchBufferHandlesToTail(memory_allocator_,
                scratch_buffer_handles_, scratch_buffer_count_),
              planner_accepts)

(***************************************************************************)
(* AllocatePersistentTfLiteTensor, AllocateTempTfLiteTensor,               *)
(* ResetTempAllocations                                                    *)
(***************************************************************************)
\* One allocation of InitializeTfLiteTensorFromFlatbuffer: from the temp
\* region or from the tail.
AllocateFor(a, allocate_temp, size) ==
  IF allocate_temp THEN AllocateTemp(a, size, AlignofStruct)
  ELSE AllocateFromTail(a, size, AlignofStruct)

\* FlatBufferVectorToTfLiteTypeArray (lines 412-449) for a vector of
\* `length` elements: aliased on a little-endian target, copied to the
\* tail on a big-endian one, whatever allocate_temp says.
FlatBufferVectorToTfLiteTypeArray(a, length) ==
  IF ArrayCopyBytes(length) = 0 THEN [ptr |-> ModelAddress, arena |-> a]
  ELSE AllocateFromTail(a, ArrayCopyBytes(length), AlignofStruct)

\* The scale array (lines 579-581).
ScaleArray(a, channels) == FlatBufferVectorToTfLiteTypeArray(a, channels)

\* Lines 547-581: the quantization parameters of tensor `t`.
InitializeQuantization(a, allocate_temp, t) ==
  LET quantization == AllocateFor(a, allocate_temp, SizeofTfLiteAffineQuantization)
      zero_point == AllocateFor(quantization.arena, allocate_temp,
                                TfLiteIntArrayGetSizeInBytes(t.channels))
      scale == ScaleArray(zero_point.arena, t.channels)
  IN  IF t.channels = 0 THEN [ok |-> TRUE, arena |-> a]
      ELSE IF quantization.ptr = NULL THEN [ok |-> FALSE, arena |-> quantization.arena]
      ELSE IF zero_point.ptr = NULL THEN [ok |-> FALSE, arena |-> zero_point.arena]
      ELSE IF scale.ptr = NULL THEN [ok |-> FALSE, arena |-> scale.arena]
      ELSE [ok |-> TRUE, arena |-> scale.arena]

\* InitializeTfLiteTensorFromFlatbuffer (lines 483-595) for tensor `t` of
\* the model: the type, the dims array (lines 517-528; every tensor of the
\* model has a shape of one dimension), then the quantization parameters.
InitializeTfLiteTensorFromFlatbuffer(a, allocate_temp, t) ==
  LET dims == FlatBufferVectorToTfLiteTypeArray(a, 1)
  IN  IF ~t.type_ok THEN [ok |-> FALSE, arena |-> a]
      ELSE IF dims.ptr = NULL THEN [ok |-> FALSE, arena |-> dims.arena]
      ELSE InitializeQuantization(dims.arena, allocate_temp, t)

\* Lines 866-896 (allocate_temp = FALSE) and 898-929 (allocate_temp = TRUE).
\* The TfLiteTensor struct is populated without a check of its allocation:
\* InitializeTfLiteTensorFromFlatbuffer DCHECKs it (line 488) and writes
\* through it (line 490).
AllocateTfLiteTensor(op, allocate_temp, tensor_index) ==
  LET tensor == AllocateFor(memory_allocator_, allocate_temp, SizeofTfLiteTensor)
      populated == InitializeTfLiteTensorFromFlatbuffer(
                     tensor.arena, allocate_temp, model.tensors[tensor_index + 1])
  IN  /\ halted = "no"
      /\ model # NoModel
      /\ n_alloc < MaxAllocs
      /\ n_alloc' = n_alloc + 1
      /\ UNCHANGED << model_is_allocating_, scratch_buffer_handles_,
                      scratch_buffer_count_, handles, model, eval_tensors,
                      eval_data, allocation_info, n_begin, n_end >>
      /\ IF tensor.ptr = NULL
           THEN /\ halted' \in {"abort", "fault"}
                /\ ret' = Ret(op, "none", "tensor", NULL)
                /\ UNCHANGED memory_allocator_
           ELSE /\ halted' = "no"
                /\ memory_allocator_' = populated.arena
                /\ ret' = IF populated.ok THEN Ret(op, "ok", "", tensor.ptr)
                          ELSE Ret(op, "null", "populate", NULL)

AllocatePersistentTfLiteTensor(tensor_index) ==
  AllocateTfLiteTensor("persistent_tensor", FALSE, tensor_index)

AllocateTempTfLiteTensor(tensor_index) ==
  AllocateTfLiteTensor("temp_tensor", TRUE, tensor_index)

\* Lines 931-933.
ResetTempAllocations ==
  /\ halted = "no"
  /\ UNCHANGED FLATBUFFERS_LITTLEENDIAN
  /\ memory_allocator_' = ResetTemp(memory_allocator_)
  /\ ret' = Ret("reset_temp", "ok", "", NULL)
  /\ UNCHANGED << model_is_allocating_, scratch_buffer_handles_,
                  scratch_buffer_count_, handles, model, eval_tensors,
                  eval_data, allocation_info, halted, n_begin, n_alloc, n_end >>

(***************************************************************************)
(* The specification                                                       *)
(***************************************************************************)
\* The byte order is fixed when the program is built.
Begin ==
  /\ \E m \in ModelSet : StartModelAllocation(m)
  /\ UNCHANGED FLATBUFFERS_LITTLEENDIAN
RequestScratch ==
  /\ \E node_id \in NodeIds, bytes \in ScratchSizes :
       RequestScratchBufferInArena(node_id, bytes)
  /\ UNCHANGED FLATBUFFERS_LITTLEENDIAN
End ==
  /\ \E planner_accepts \in BOOLEAN : FinishModelAllocation(planner_accepts)
  /\ UNCHANGED FLATBUFFERS_LITTLEENDIAN
PersistentBuffer ==
  /\ \E bytes \in PersistentSizes : AllocatePersistentBuffer(bytes)
  /\ UNCHANGED FLATBUFFERS_LITTLEENDIAN
PersistentTensor ==
  /\ model # NoModel
  /\ \E i \in 0..(TensorCount(model) - 1) : AllocatePersistentTfLiteTensor(i)
  /\ UNCHANGED FLATBUFFERS_LITTLEENDIAN
TempTensor ==
  /\ model # NoModel
  /\ \E i \in 0..(TensorCount(model) - 1) : AllocateTempTfLiteTensor(i)
  /\ UNCHANGED FLATBUFFERS_LITTLEENDIAN

Next ==
  \/ Begin
  \/ RequestScratch
  \/ End
  \/ PersistentBuffer
  \/ PersistentTensor
  \/ TempTensor
  \/ ResetTempAllocations

Spec == Init /\ [][Next]_vars

(***************************************************************************)
(* The allocation-info builder on its own                                  *)
(***************************************************************************)
\* Operator graphs over three tensors: operators with one or two inputs and
\* one output, listed in any order, none to two of them.
GraphTensorIds == {0, 1, 2}
GraphOperators ==
  { Operator(<<x[1]>>, <<x[2]>>) : x \in GraphTensorIds \X GraphTensorIds }
  \cup { Operator(<<x[1], x[2]>>, <<x[3]>>) :
           x \in { y \in GraphTensorIds \X GraphTensorIds \X GraphTensorIds :
                     y[1] < y[2] } }
GraphOperatorLists ==
  { << >> } \cup { <<o>> : o \in GraphOperators }
            \cup { <<x[1], x[2]>> : x \in GraphOperators \X GraphOperators }
\* Tensor 1 is plain, a constant of the model, or a variable.
GraphTensors ==
  { << Tensor(16, FALSE, "nodata"), t, Tensor(8, FALSE, "nodata") >> :
      t \in { Tensor(40, FALSE, "nodata"), Tensor(40, FALSE, "data"),
              Tensor(40, TRUE, "nodata") } }
GraphSet ==
  { [id |-> "graph", subgraphs |-> 1, tensors |-> t, inputs |-> i,
     outputs |-> o, operators |-> ops, metadata |-> << >>] :
      t \in GraphTensors, i \in { <<0>>, <<0, 1>> }, o \in { <<2>>, <<0>> },
      ops \in GraphOperatorLists }

\* The scratch buffer handles registered before the builder runs: none, one
\* or two, as RequestScratchBufferInArena writes them (lines 729-733).
BuilderHandles ==
  { << >>,
    << [bytes |-> 24, node_idx |-> 1, data |-> NULL] >>,
    << [bytes |-> 40, node_idx |-> 0, data |-> NULL],
       [bytes |-> 24, node_idx |-> 2, data |-> NULL] >> }

\* A decoded graph, its eval tensors and the scratch buffer handles, as
\* CommitStaticMemoryPlan hands them to the builder.
InitBuilder ==
  /\ model \in GraphSet
  /\ eval_data = [i \in 1..TensorCount(model) |-> GetFlatbufferTensorBuffer(model, i - 1)]
  /\ eval_tensors = ModelAddress
  /\ allocation_info = << >>
  /\ ret = Ret("graph", "ok", "", NULL)
  /\ memory_allocator_ = NewSimpleMemoryAllocator(NULL, NULL)
  /\ model_is_allocating_ = TRUE
  /\ handles \in BuilderHandles
  /\ scratch_buffer_handles_ = IF handles = << >> THEN NULL ELSE ModelAddress
  /\ scratch_buffer_count_ = Len(handles)
  /\ halted = "no"
  /\ n_begin = 0
  /\ n_alloc = 0
  /\ n_end = 0
  /\ FLATBUFFERS_LITTLEENDIAN = TRUE

\* builder.AddTensors(subgraph, nullptr, eval_tensors) (line 1047).
RunAddTensors ==
  /\ ret.op = "graph"
  /\ allocation_info' = AddTensors(model, [set |-> FALSE], eval_data).info
  /\ ret' = Ret("add_tensors", AddTensors(model, [set |-> FALSE], eval_data).status,
                "", NULL)
  /\ UNCHANGED << memory_allocator_, model_is_allocating_, scratch_buffer_handles_,
                  scratch_buffer_count_, handles, model, eval_tensors, eval_data,
                  halted, n_begin, n_alloc, n_end, FLATBUFFERS_LITTLEENDIAN >>

\* builder.AddScratchBuffers(scratch_buffer_handles_) (line 1049), reached
\* when AddTensors returned kTfLiteOk.
RunAddScratchBuffers ==
  /\ ret.op = "add_tensors"
  /\ ret.status = "ok"
  /\ allocation_info' = AddScratchBuffers(allocation_info, handles)
  /\ ret' = Ret("add_scratch", "ok", "", NULL)
  /\ UNCHANGED << memory_allocator_, model_is_allocating_, scratch_buffer_handles_,
                  scratch_buffer_count_, handles, model, eval_tensors, eval_data,
                  halted, n_begin, n_alloc, n_end, FLATBUFFERS_LITTLEENDIAN >>

NextBuilder == RunAddTensors \/ RunAddScratchBuffers

SpecBuilder == InitBuilder /\ [][NextBuilder]_vars

(***************************************************************************)
(* MicroAllocator::Create on its own                                       *)
(***************************************************************************)
\* Caller arenas: every alignment of the base, sizes from nothing to a few
\* bytes more than the MicroAllocator object.
CreateArenas == 64..79
CreateSizes == 0..40

\* The caller's arena, before Create.
InitCreate ==
  /\ ret \in { Ret("arena", "ok", "", [tensor_arena |-> b, arena_size |-> n]) :
                 b \in CreateArenas, n \in CreateSizes }
  /\ memory_allocator_ = NewSimpleMemoryAllocator(NULL, NULL)
  /\ model_is_allocating_ = FALSE
  /\ scratch_buffer_handles_ = NULL
  /\ scratch_buffer_count_ = 0
  /\ handles = << >>
  /\ model = NoModel
  /\ eval_tensors = NULL
  /\ eval_data = << >>
  /\ allocation_info = << >>
  /\ halted = "no"
  /\ n_begin = 0
  /\ n_alloc = 0
  /\ n_end = 0
  /\ FLATBUFFERS_LITTLEENDIAN = TRUE

\* MicroAllocator::Create(tensor_arena, arena_size, error_reporter)
\* (lines 630-656); a null allocator_buffer is handed to placement new.
RunCreate ==
  /\ ret.op = "arena"
  /\ memory_allocator_' = Create(ret.value.tensor_arena, ret.value.arena_size).arena
  /\ ret' = Ret("create",
                IF Create(ret.value.tensor_arena, ret.value.arena_size).ptr = NULL
                  THEN "none" ELSE "ok",
                "", ret.value)
  /\ halted' = IF Create(ret.value.tensor_arena, ret.value.arena_size).ptr = NULL
                 THEN "fault" ELSE "no"
  /\ UNCHANGED << model_is_allocating_, scratch_buffer_handles_,
                  scratch_buffer_count_, handles, model, eval_tensors, eval_data,
                  allocation_info, n_begin, n_alloc, n_end,
                  FLATBUFFERS_LITTLEENDIAN >>

NextCreate == RunCreate

SpecCreate == InitCreate /\ [][NextCreate]_vars

(***************************************************************************)
(* GetOfflinePlannedOffsets on its own                                     *)
(***************************************************************************)
\* Metadata names: the exact one, one that begins with it, a proper prefix
\* of it, and an unrelated one.
MetadataNames ==
  { kOfflineMemAllocMetadata,
    kOfflineMemAllocMetadata \o << "V", "2" >>,
    SubSeq(kOfflineMemAllocMetadata, 1, 7),
    << "m", "i", "n", "_", "r", "u", "n", "t", "i", "m", "e" >> }

\* The offsets a metadata buffer gives to the four tensors of the chain.
MetadataOffsets == [1..4 -> {kOnlinePlannedBuffer, 0, 16}]

\* The chain with one metadata entry, before the builder runs.
InitOffline ==
  /\ model \in { ChainModel("named", SmallSizes, {},
                            << Metadata(n, 4, << o[1], o[2], o[3], o[4] >>) >>) :
                   n \in MetadataNames, o \in MetadataOffsets }
  /\ eval_data = [i \in 1..TensorCount(model) |-> GetFlatbufferTensorBuffer(model, i - 1)]
  /\ eval_tensors = ModelAddress
  /\ allocation_info = << >>
  /\ ret = Ret("model", "ok", "", NULL)
  /\ memory_allocator_ = NewSimpleMemoryAllocator(NULL, NULL)
  /\ model_is_allocating_ = TRUE
  /\ scratch_buffer_handles_ = NULL
  /\ scratch_buffer_count_ = 0
  /\ handles = << >>
  /\ halted = "no"
  /\ n_begin = 0
  /\ n_alloc = 0
  /\ n_end = 0
  /\ FLATBUFFERS_LITTLEENDIAN = TRUE

\* builder.GetOfflinePlannedOffsets(model, &offline_planner_offsets) and
\* builder.AddTensors(subgraph, offline_planner_offsets, eval_tensors)
\* (lines 1044-1048).
RunGetOfflinePlannedOffsets ==
  /\ ret.op = "model"
  /\ allocation_info' =
       IF GetOfflinePlannedOffsets(model, TensorCount(model)).status = "ok"
         THEN AddTensors(model,
                GetOfflinePlannedOffsets(model, TensorCount(model)).offsets,
                eval_data).info
         ELSE << >>
  /\ ret' = Ret("offline_offsets",
                GetOfflinePlannedOffsets(model, TensorCount(model)).status, "", NULL)
  /\ UNCHANGED << memory_allocator_, model_is_allocating_, scratch_buffer_handles_,
                  scratch_buffer_count_, handles, model, eval_tensors, eval_data,
                  halted, n_begin, n_alloc, n_end, FLATBUFFERS_LITTLEENDIAN >>

NextOffline == RunGetOfflinePlannedOffsets

SpecOffline == InitOffline /\ [][NextOffline]_vars

(***************************************************************************)
(* Properties                                                              *)
(***************************************************************************)
EndSucceeded == ret.op = "end" /\ ret.status = "ok"

\* The address committed for entry i of the allocation info: a tensor's
\* data pointer, or a scratch handle's.
CommittedAt(i) ==
  IF i <= TensorCount(model) THEN eval_data[i]
  ELSE handles[i - TensorCount(model)].data

LifetimesOverlap(x, y) ==
  x.first_created <= y.last_used /\ y.first_created <= x.last_used

RangesDisjoint(i, j) ==
  \/ CommittedAt(i) + allocation_info[i].bytes <= CommittedAt(j)
  \/ CommittedAt(j) + allocation_info[j].bytes <= CommittedAt(i)

\* C1: StartModelAllocation called while a model is being allocated returns
\* an error and changes neither the allocating flag, the scratch count, the
\* scratch handle pointer, the handles, nor the arena cursors.
C1_BeginWhileAllocating ==
  [][ (model_is_allocating_ /\ n_begin' = n_begin + 1)
        => /\ ret'.op = "begin"
           /\ ret'.status = "error"
           /\ UNCHANGED << model_is_allocating_, scratch_buffer_count_,
                           scratch_buffer_handles_, handles, memory_allocator_ >> ]_vars

\* A second begin was refused while a scratch buffer was registered.
C1_Witness ==
  /\ ret.op = "begin" /\ ret.status = "error" /\ ret.why = "already_allocating"
  /\ model_is_allocating_
  /\ scratch_buffer_count_ > 0

\* C2: FinishModelAllocation called while no model is being allocated
\* returns an error and changes no state.
C2_EndWhileIdle ==
  [][ (~model_is_allocating_ /\ n_end' = n_end + 1)
        => /\ ret'.op = "end"
           /\ ret'.status = "error"
           /\ UNCHANGED << memory_allocator_, model_is_allocating_,
                           scratch_buffer_handles_, scratch_buffer_count_, handles,
                           model, eval_tensors, eval_data, allocation_info,
                           halted >> ]_vars

\* An end was refused after a model had been allocated and finished.
C2_Witness ==
  /\ ret.op = "end" /\ ret.status = "error" /\ ret.why = "not_allocating"
  /\ ~model_is_allocating_
  /\ model # NoModel

\* C3: RequestScratchBufferInArena called while no model is being allocated
\* returns an error and registers no handle.
C3_RequestWhileIdle ==
  [][ (~model_is_allocating_ /\ ret'.op = "request_scratch")
        => /\ ret'.status = "error"
           /\ UNCHANGED << scratch_buffer_count_, handles >> ]_vars

\* C4: after a successful end, any two planned buffers (tensors and scratch
\* buffers, planned online or pinned offline) whose lifetimes overlap have
\* disjoint byte ranges.
C4_LiveBuffersDisjoint ==
  EndSucceeded =>
    \A i, j \in Planned(allocation_info) :
      (i < j /\ LifetimesOverlap(allocation_info[i], allocation_info[j]))
        => RangesDisjoint(i, j)

\* C5: after a successful end, a planned tensor with an offline offset
\* o >= 0 has its data pointer at buffer head + o.
C5_OfflineOffsetCommitted ==
  EndSucceeded =>
    \A i \in Planned(allocation_info) :
      (i <= TensorCount(model) /\ allocation_info[i].offline_offset >= 0)
        => eval_data[i] = GetBufferHead(memory_allocator_)
                            + allocation_info[i].offline_offset

\* An end succeeded for a model that pins a planned tensor above offset 0.
C5_Witness ==
  /\ EndSucceeded
  /\ \E i \in Planned(allocation_info) :
       /\ i <= TensorCount(model)
       /\ allocation_info[i].offline_offset > 0

\* C6: after a successful end, every committed buffer lies at a multiple
\* of 16 bytes from the buffer head.
C6_OffsetsAligned ==
  EndSucceeded =>
    \A i \in Planned(allocation_info) :
      (CommittedAt(i) - GetBufferHead(memory_allocator_)) % kBufferAlignment = 0

\* C7: in every reachable state the head cursor is at or below the tail
\* cursor.
C7_HeadBelowTail == memory_allocator_.head_ <= memory_allocator_.tail_

\* An allocation was refused with the head reserved and the cursors less
\* than one eval tensor table apart.
C7_Witness ==
  /\ ret.status \in {"error", "null"}
  /\ ret.op \in {"begin", "persistent_buffer", "request_scratch"}
  /\ memory_allocator_.head_ > memory_allocator_.buffer_head_
  /\ memory_allocator_.tail_ - memory_allocator_.head_ < SizeofTfLiteEvalTensor * 4

\* C8: after a successful end, every variable tensor has a data pointer
\* that is not null and at or above the tail cursor, and was not planned.
C8_VariablesAtTail ==
  EndSucceeded =>
    \A i \in 1..TensorCount(model) :
      model.tensors[i].is_variable
        => /\ eval_data[i] # NULL
           /\ eval_data[i] >= memory_allocator_.tail_
           /\ eval_data[i] < memory_allocator_.buffer_tail_
           /\ ~allocation_info[i].needs_allocating

\* An end succeeded for a model with a variable tensor.
C8_Witness ==
  /\ EndSucceeded
  /\ \E i \in 1..TensorCount(model) : model.tensors[i].is_variable

\* C9: an end whose plan has a footprint above the memory between the head
\* and the tail cursor returns an error and commits no address; an end that
\* succeeds has buffer head + footprint at or below the tail cursor.
C9_FootprintFits ==
  [][ (model_is_allocating_ /\ ret'.op = "end" /\ ret'.value.needed >= 0)
        => /\ (ret'.value.needed
                 > ret'.value.checked.tail_ - ret'.value.checked.head_)
                => /\ ret'.status = "error"
                   /\ eval_data' = eval_data
                   /\ handles' = handles
           /\ ret'.status = "ok"
                => GetBufferHead(memory_allocator_') + ret'.value.needed
                     <= memory_allocator_'.tail_ ]_vars

\* C10: StartModelAllocation for a model whose subgraph count is not 1
\* returns an error, stays idle and consumes no arena.
C10_SubgraphCount ==
  [][ (~model_is_allocating_ /\ ret'.op = "begin" /\ model'.subgraphs # 1)
        => /\ ret'.status = "error"
           /\ halted' = "no"
           /\ ~model_is_allocating_'
           /\ memory_allocator_' = memory_allocator_ ]_vars

\* The model carries offline-plan metadata with an unsupported header.
UnsupportedOfflinePlan(m) ==
  \E k \in 1..Len(m.metadata) :
    /\ NameMatches(m.metadata[k].name)
    /\ (m.metadata[k].version # 1 \/ m.metadata[k].subgraph # 0)

\* C11: when the offline-plan metadata has a version other than 1 or a
\* subgraph index other than 0, end returns an error and no offset of the
\* metadata is used as a fixed placement.
C11_UnsupportedPlanRejected ==
  (ret.op = "end" /\ model # NoModel /\ UnsupportedOfflinePlan(model))
    => /\ ret.status = "error"
       /\ \A i \in 1..Len(allocation_info) :
            allocation_info[i].offline_offset = kOnlinePlannedBuffer

\* The model carries offline-plan metadata whose count of offsets is not
\* the number of tensors of the subgraph.
PlanCountMismatch(m) ==
  \E k \in 1..Len(m.metadata) :
    /\ NameMatches(m.metadata[k].name)
    /\ m.metadata[k].nbr # TensorCount(m)

\* C12: when the offline-plan metadata gives a tensor count other than the
\* subgraph's, end returns an error, no buffer has been added to the planner
\* and no data pointer has been written.
C12_CountMismatchRejected ==
  [][ (model_is_allocating_ /\ n_end' = n_end + 1 /\ PlanCountMismatch(model))
        => /\ ret'.status = "error"
           /\ ret'.value.needed = -1
           /\ allocation_info' = << >>
           /\ eval_data' = eval_data
           /\ \A j \in 1..Len(handles') : handles'[j].data = NULL ]_<< n_end >>

\* C13: a begin that returns an error, for whatever reason, leaves the
\* allocator allocating; while it is allocating every begin is refused, and
\* only an end that succeeds makes it idle again.
C13_FailedBeginStaysAllocating ==
  [][ /\ (n_begin' = n_begin + 1 /\ ret'.status = "error")
          => model_is_allocating_'
      /\ (n_begin' = n_begin + 1 /\ model_is_allocating_)
          => (ret'.status = "error" /\ model_is_allocating_')
      /\ (model_is_allocating_ /\ ~model_is_allocating_')
          => (ret'.op = "end" /\ ret'.status = "ok") ]_<< n_begin, model_is_allocating_ >>

\* A begin failed in one of its allocations.
C13_Witness ==
  /\ ret.op = "begin" /\ ret.status = "error"
  /\ ret.why \in {"eval_tensors", "tensor", "nodes", "prepare"}
  /\ model_is_allocating_

AddTensorsRan == ret.op = "add_tensors"

\* C14: when the builder succeeds, every tensor left with needs_allocating
\* has 0 <= first_created <= last_used < operator count, whatever the order
\* of the operators.
C14_LifetimesOrdered ==
  (AddTensorsRan /\ ret.status = "ok")
    => \A i \in 1..Len(allocation_info) :
         allocation_info[i].needs_allocating
           => /\ 0 <= allocation_info[i].first_created
              /\ allocation_info[i].first_created <= allocation_info[i].last_used
              /\ allocation_info[i].last_used < OperatorCount(model)

\* Exactly one of first_created and last_used is -1.
HalfLifetime(e) == (e.first_created = -1) # (e.last_used = -1)

\* C15: the builder fails exactly when some tensor with needs_allocating has
\* exactly one of first_created and last_used equal to -1; a tensor with
\* both equal to -1 raises no error.
C15_LifetimeErrorExactly ==
  AddTensorsRan
    => ((ret.status = "error")
          <=> \E i \in 1..Len(allocation_info) :
                /\ allocation_info[i].needs_allocating
                /\ HalfLifetime(allocation_info[i]))

\* C16: after lifetime derivation every subgraph input has first_created 0
\* and every subgraph output has last_used = operator count - 1.
C16_InputsAndOutputs ==
  AddTensorsRan
    => /\ \A k \in 1..Len(model.inputs) :
            allocation_info[model.inputs[k] + 1].first_created = 0
       /\ \A k \in 1..Len(model.outputs) :
            allocation_info[model.outputs[k] + 1].last_used
              = OperatorCount(model) - 1

\* The builder ran on a graph whose second operator produces a subgraph
\* input and whose first operator consumes a subgraph output.
C16_Witness ==
  /\ AddTensorsRan
  /\ OperatorCount(model) = 2
  /\ \E k \in 1..Len(model.inputs) : model.operators[2].outputs = << model.inputs[k] >>
  /\ \E k \in 1..Len(model.outputs) : model.operators[1].inputs = << model.outputs[k] >>

\* The buffer of the model that tensor i (from 1) carries, null when the
\* buffer holds no byte.
ModelData(m, i) ==
  IF m.tensors[i].buffer = "data" THEN FlatbufferData(i - 1) ELSE NULL

\* C17: a begin that passes the flag check points an eval tensor at its model buffer when that buffer
\* holds at least one byte and leaves it null otherwise (an empty buffer
\* counts as no data); no other call but end changes the pointers; end never
\* hands a tensor with model data to the planner and leaves its pointer
\* alone unless it is a variable; a non-variable tensor with an empty buffer
\* is planned whenever an operator gives it a lifetime.
C17_ModelDataKept ==
  [][ /\ (n_begin' = n_begin + 1 /\ ~model_is_allocating_ /\ eval_tensors' # NULL)
         => \A i \in 1..TensorCount(model') :
              eval_data'[i] = ModelData(model', i)
      /\ (n_begin' = n_begin /\ n_end' = n_end) => eval_data' = eval_data
      /\ (n_end' = n_end + 1 /\ model_is_allocating_ /\ halted' = "no")
         => \A i \in 1..Len(eval_data) :
              /\ model.tensors[i].buffer = "data"
                 => /\ i <= Len(allocation_info')
                       => ~allocation_info'[i].needs_allocating
                    /\ ~model.tensors[i].is_variable
                       => eval_data'[i] = ModelData(model, i)
              /\ (/\ ret'.status = "ok"
                  /\ model.tensors[i].buffer = "empty"
                  /\ ~model.tensors[i].is_variable)
                 => /\ allocation_info'[i].needs_allocating
                         = (allocation_info'[i].first_created # -1)
                    /\ allocation_info'[i].needs_allocating
                         => /\ eval_data'[i] >= GetBufferHead(memory_allocator_')
                            /\ eval_data'[i] + model.tensors[i].bytes
                                 <= GetTail(memory_allocator_')
    ]_<< n_begin, n_end, eval_data >>

\* An end succeeded for the model with a constant, an empty buffer that is
\* planned, and a variable with model data that moved to the tail.
C17_Witness ==
  /\ EndSucceeded
  /\ model.id = "weights"
  /\ eval_data[2] = ModelData(model, 2)
  /\ allocation_info[4].needs_allocating
  /\ eval_data[5] # ModelData(model, 5)

\* C18: a call of AllocateTempTfLiteTensor, quantized tensors included,
\* leaves the tail cursor where it was, and a ResetTempAllocations after it
\* gives the used bytes a ResetTempAllocations before it would have given.
C18_TempTensorsRestored ==
  [][ (n_alloc' = n_alloc + 1 /\ ret'.op = "temp_tensor")
        => /\ GetTail(memory_allocator_') = GetTail(memory_allocator_)
           /\ GetUsedBytes(ResetTemp(memory_allocator_'))
                = GetUsedBytes(ResetTemp(memory_allocator_))
    ]_<< n_alloc, memory_allocator_ >>

\* The eval tensors whose data pointer is not null.
NonNullTensors(data) == { i \in 1..Len(data) : data[i] # NULL }

IsConstant(t) == t.buffer = "data"

\* FinishModelAllocation succeeds on eval tensors that are as a successful
\* StartModelAllocation left them.
EndAfterBegin ==
  /\ n_end' = n_end + 1
  /\ model_is_allocating_
  /\ ret'.status = "ok"
  /\ eval_data = [i \in 1..TensorCount(model) |-> ModelData(model, i)]

HandleTableDoesNotFit ==
  /\ scratch_buffer_count_ > 0
  /\ AllocateFromTail(memory_allocator_,
                      SizeofScratchBufferHandle * scratch_buffer_count_,
                      AlignofStruct).ptr = NULL

\* C20: a FinishModelAllocation whose tail allocation of the scratch handle
\* table cannot be satisfied returns an error and writes nothing through
\* the null result.
C20_FailedAllocationsReported ==
  [][ (n_end' = n_end + 1 /\ model_is_allocating_ /\ HandleTableDoesNotFit)
        => (halted' = "no" /\ ret'.status = "error")
    ]_<< n_end, halted >>

\* A call of AllocatePersistentTfLiteTensor or AllocateTempTfLiteTensor.
TensorCall == n_alloc' = n_alloc + 1 /\ ret'.op \in {"persistent_tensor", "temp_tensor"}

\* The arena cannot supply the TfLiteTensor struct the call asks for.
TensorRecordDoesNotFit ==
  AllocateFor(memory_allocator_, ret'.op = "temp_tensor", SizeofTfLiteTensor).ptr = NULL

\* C21: a tensor call for which the arena cannot supply the tensor record
\* returns null and leaves the arena as it was; so does every call that
\* returns null.
C21_NullWithoutWrites ==
  [][ /\ (TensorCall /\ TensorRecordDoesNotFit)
           => (halted' = "no" /\ ret'.status = "null")
      /\ (TensorCall /\ ret'.status = "null")
           => memory_allocator_' = memory_allocator_
    ]_<< n_alloc, memory_allocator_, halted >>

\* FinishModelAllocation succeeds for the chain of 100, 200, 150 and 100
\* bytes, without scratch buffers, right after its StartModelAllocation.
ChainPlanned ==
  /\ EndAfterBegin
  /\ model.id = "chain"
  /\ Len(handles) = 0

\* C22 as stated: t1 and t3 of the chain are committed to the same address
\* and the planned footprint is at most 352 bytes.
C22_ChainFootprintAsStated ==
  [][ ChainPlanned
        => /\ eval_data'[2] = eval_data'[4]
           /\ ret'.value.needed <= 352
    ]_<< n_end >>

\* C22, amended: t1 and t3 of the chain are committed to the same address
\* and the planned footprint is 368 bytes, the 16-byte aligned sizes of t1
\* and t2 (208 + 160).
C22_ChainFootprint ==
  [][ ChainPlanned
        => /\ eval_data'[2] = eval_data'[4]
           /\ ret'.value.needed
                = AlignSizeUp(ChainSizes[2], kBufferAlignment)
                  + AlignSizeUp(ChainSizes[3], kBufferAlignment)
           /\ ret'.value.needed = 368
    ]_<< n_end >>

\* The first end after the begin of the chain succeeded and committed its
\* four tensors.
C22_Witness ==
  /\ EndSucceeded
  /\ model.id = "chain"
  /\ n_begin = 1
  /\ n_end = 1
  /\ Len(handles) = 0
  /\ \A i \in 1..4 : allocation_info[i].needs_allocating

\* The bytes between the caller's base and the aligned base.
LostToAlignment(tensor_arena) ==
  AlignPointerUp(tensor_arena, kBufferAlignment) - tensor_arena

\* C23: Create aligns the base up to 16 and the effective arena lies inside
\* the caller's region, with size minus the lost bytes when the size covers
\* them, and without wrap-around when it does not.
C23_EffectiveArenaContained ==
  ret.op = "create"
    => /\ memory_allocator_.buffer_head_
            = AlignPointerUp(ret.value.tensor_arena, kBufferAlignment)
       /\ memory_allocator_.buffer_tail_
            <= ret.value.tensor_arena + ret.value.arena_size
       /\ ret.value.arena_size >= LostToAlignment(ret.value.tensor_arena)
            => memory_allocator_.buffer_tail_ - memory_allocator_.buffer_head_
                 = ret.value.arena_size - LostToAlignment(ret.value.tensor_arena)

\* FinishModelAllocation runs with registered scratch buffers and does not
\* stop the program.
EndWithHandles ==
  /\ n_end' = n_end + 1
  /\ model_is_allocating_
  /\ scratch_buffer_count_ > 0
  /\ halted' = "no"

\* The tail allocation MoveScratchBufferHandlesToTail makes.
HandleTable ==
  AllocateFromTail(memory_allocator_,
                   SizeofScratchBufferHandle * scratch_buffer_count_, AlignofStruct)

\* C24 as stated: the allocation info is built and the planner run before
\* the handles move to the tail, so an end whose planning step fails has
\* not moved them.
C24_PlanThenMoveAsStated ==
  [][ (EndWithHandles /\ ret'.status = "error")
        => /\ scratch_buffer_handles_' = scratch_buffer_handles_
           /\ GetTail(memory_allocator_') = GetTail(memory_allocator_)
    ]_<< n_end >>

\* C24, amended: end moves the handle table to the tail first, then builds
\* the allocation info and runs the planner in an arena whose tail already
\* holds the table, then raises the head: whatever the planning step
\* returns, the handle pointer is the tail allocation and the arena the
\* planning step checked has its tail at the table.
C24_MoveThenPlan ==
  [][ EndWithHandles
        => /\ scratch_buffer_handles_' = HandleTable.ptr
           /\ scratch_buffer_handles_' >= GetTail(memory_allocator_')
           /\ ret'.value.checked.tail_ = GetTail(HandleTable.arena)
           /\ ret'.value.checked.head_ = memory_allocator_.head_
    ]_<< n_end >>

\* An end moved the handles to the tail and then failed in its planning
\* step.
C24_Witness ==
  /\ ret.op = "end"
  /\ ret.status = "error"
  /\ ret.why \in {"offline_plan", "lifetime", "planner", "arena_too_small"}
  /\ scratch_buffer_count_ > 0
  /\ scratch_buffer_handles_ >= GetTail(memory_allocator_)

\* Byte ranges [p, p + n) and [q, q + m) share no byte.
Apart(p, n, q, m) == p + n <= q \/ q + m <= p

\* C25: in a successful end every variable tensor gets its storage from the
\* tail, above the head cursor raised over the planned footprint, and its
\* bytes overlap no buffer a plan was committed for, tensor or scratch
\* buffer.
C25_VariablesAfterCommit ==
  [][ (n_end' = n_end + 1 /\ model_is_allocating_ /\ ret'.status = "ok")
        => \A v \in 1..TensorCount(model) :
             model.tensors[v].is_variable
               => /\ eval_data'[v] >= GetTail(memory_allocator_')
                  /\ eval_data'[v] < GetTail(ret'.value.checked)
                  /\ eval_data'[v] >= memory_allocator_'.head_
                  /\ memory_allocator_'.head_
                       >= GetBufferHead(memory_allocator_') + ret'.value.needed
                  /\ \A i \in 1..TensorCount(model) :
                       (~model.tensors[i].is_variable
                        /\ ~IsConstant(model.tensors[i])
                        /\ eval_data'[i] # NULL)
                         => Apart(eval_data'[v], model.tensors[v].bytes,
                                  eval_data'[i], model.tensors[i].bytes)
                  /\ \A j \in 1..Len(handles') :
                       Apart(eval_data'[v], model.tensors[v].bytes,
                             handles'[j].data, handles'[j].bytes)
    ]_<< n_end >>

\* C26: for T tensors and S scratch buffers the builder produces T + S
\* entries; entry i < T describes tensor i, entry T + j scratch buffer j:
\* first_created = last_used = its node index, bytes = the requested size,
\* needs_allocating set and an online offset.
C26_BuilderEntries ==
  ret.op = "add_scratch"
    => /\ Len(allocation_info) = TensorCount(model) + scratch_buffer_count_
       /\ \A i \in 1..TensorCount(model) :
            /\ allocation_info[i].bytes = model.tensors[i].bytes
            /\ allocation_info[i]
                 = AddTensors(model, [set |-> FALSE], eval_data).info[i]
       /\ \A j \in 1..scratch_buffer_count_ :
            LET e == allocation_info[TensorCount(model) + j]
            IN  /\ e.first_created = handles[j].node_idx
                /\ e.last_used = handles[j].node_idx
                /\ e.bytes = handles[j].bytes
                /\ e.needs_allocating
                /\ e.offline_offset = kOnlinePlannedBuffer

\* The builder added two scratch buffers of different nodes after the
\* tensors.
C26_Witness ==
  /\ ret.op = "add_scratch"
  /\ scratch_buffer_count_ = 2
  /\ allocation_info[TensorCount(model) + 2].first_created = 2
  /\ allocation_info[TensorCount(model) + 1].bytes = 40

\* The elements of a sequence.
Range(seq) == { seq[k] : k \in 1..Len(seq) }

\* The indices (from 0) of the operators that produce / consume tensor t.
Producers(m, t) == { k \in 0..(OperatorCount(m) - 1) : t \in Range(m.operators[k + 1].outputs) }
Consumers(m, t) == { k \in 0..(OperatorCount(m) - 1) : t \in Range(m.operators[k + 1].inputs) }

\* C27: after lifetime derivation a tensor that is no subgraph input and
\* has producers has first_created = its smallest producer; a tensor that
\* is no subgraph output and has consumers has last_used = its largest
\* consumer; any other first_created belongs to a tensor that needed
\* allocating and is an input of operator first_created together with an
\* input whose first_created is 0.
C27_LifetimesFromOperators ==
  AddTensorsRan
    => \A t \in 0..(TensorCount(model) - 1) :
         /\ (t \notin Range(model.inputs) /\ Producers(model, t) # {})
              => allocation_info[t + 1].first_created = SetMin(Producers(model, t))
         /\ (t \notin Range(model.outputs) /\ Consumers(model, t) # {})
              => allocation_info[t + 1].last_used = SetMax(Consumers(model, t))
         /\ (/\ t \notin Range(model.inputs)
             /\ Producers(model, t) = {}
             /\ allocation_info[t + 1].first_created # -1)
              => /\ eval_data[t + 1] = NULL
                 /\ ~model.tensors[t + 1].is_variable
                 /\ allocation_info[t + 1].first_created \in Consumers(model, t)
                 /\ \E u \in Range(model.operators[
                                     allocation_info[t + 1].first_created + 1].inputs) :
                      allocation_info[u + 1].first_created = 0

\* The builder ran on a graph where the workaround gave a lifetime start to
\* a tensor that no operator produces, and where a tensor has two producers
\* and another two consumers.
C27_Witness ==
  /\ AddTensorsRan
  /\ \E t \in 0..(TensorCount(model) - 1) :
       /\ t \notin Range(model.inputs)
       /\ Producers(model, t) = {}
       /\ allocation_info[t + 1].first_created = 1
  /\ \E t \in 0..(TensorCount(model) - 1) :
       t \notin Range(model.outputs) /\ Cardinality(Consumers(model, t)) = 2

\* The main arena as MoveScratchBufferHandlesToTail leaves it.
MovedArena ==
  IF scratch_buffer_count_ = 0 THEN memory_allocator_ ELSE HandleTable.arena

HasVariables(m) == \E i \in 1..TensorCount(m) : m.tensors[i].is_variable

\* C28: the planning step of end leaves the main arena's tail cursor where
\* the handle move left it; when it succeeds no temp allocation is
\* outstanding and the head cursor is the maximum of its previous value and
\* buffer head + planned footprint; when it fails the head and temp cursors
\* are as before.
C28_NoPlanningDataLeft ==
  [][ (n_end' = n_end + 1 /\ model_is_allocating_ /\ halted' = "no")
        => /\ (ret'.status = "ok" \/ ret'.why = "variables")
                => /\ memory_allocator_'.head_
                        = Max(memory_allocator_.head_,
                              GetBufferHead(memory_allocator_) + ret'.value.needed)
                   /\ memory_allocator_'.temp_ = memory_allocator_'.head_
           /\ (ret'.status = "error" /\ ret'.why # "variables")
                => /\ memory_allocator_'.head_ = memory_allocator_.head_
                   /\ memory_allocator_'.temp_ = memory_allocator_.temp_
           /\ (ret'.status = "error" /\ ret'.why # "variables") \/ ~HasVariables(model)
                => GetTail(memory_allocator_') = GetTail(MovedArena)
    ]_<< n_end >>

\* An end planned a non-empty footprint for a model without variables and
\* with scratch buffers, and raised the head over it.
C28_Witness ==
  /\ EndSucceeded
  /\ ~HasVariables(model)
  /\ scratch_buffer_count_ > 0
  /\ ret.value.needed > 0
  /\ memory_allocator_.head_ = GetBufferHead(memory_allocator_) + ret.value.needed

\* C29: a model none of whose metadata entries is named exactly
\* "OfflineMemoryAllocation" gets no offline offset: every tensor is
\* planned online.
C29_ExactMetadataName ==
  (ret.op = "offline_offsets"
   /\ \A k \in 1..Len(model.metadata) :
        model.metadata[k].name # kOfflineMemAllocMetadata)
    => /\ ret.status = "ok"
       /\ \A i \in 1..Len(allocation_info) :
            allocation_info[i].offline_offset = kOnlinePlannedBuffer

\* C30: a begin that passed the check of model_is_allocating_ sets the
\* scratch count to 0; from there on only a successful
\* RequestScratchBufferInArena changes the count, it returns the count as
\* the buffer index and raises it by one, so the k-th successful request of
\* a model returns index k counted from 0. A request that fails because the
\* head cannot grow returns an error and leaves the count, the handle
\* pointer, the handles and the arena as they were.
C30_ScratchIndices ==
  [][ /\ (n_begin' = n_begin + 1 /\ ~model_is_allocating_)
           => scratch_buffer_count_' = 0
      /\ (n_begin' = n_begin /\ ret'.op = "request_scratch" /\ ret'.status = "ok")
           => /\ ret'.value = scratch_buffer_count_
              /\ scratch_buffer_count_' = scratch_buffer_count_ + 1
      /\ (n_begin' = n_begin /\ ret'.op # "request_scratch")
           => scratch_buffer_count_' = scratch_buffer_count_
      /\ (ret'.op = "request_scratch" /\ ret'.status = "error")
           => /\ scratch_buffer_count_' = scratch_buffer_count_
              /\ scratch_buffer_handles_' = scratch_buffer_handles_
              /\ handles' = handles
              /\ memory_allocator_' = memory_allocator_
    ]_<< n_begin, n_end, n_alloc, scratch_buffer_count_, scratch_buffer_handles_,
         handles, memory_allocator_ >>

\* A request failed for a model whose first request had returned index 0:
\* the count is still 1.
C30_Witness ==
  /\ ret.op = "request_scratch"
  /\ ret.status = "error"
  /\ ret.why = "head"
  /\ model_is_allocating_
  /\ scratch_buffer_count_ = 1
  /\ Len(handles) = 1

\* An end step that reached CommitPlan (line 1076): it returned ok, or it
\* failed in the head reservation or the variable allocation that follow.
EndCommitted ==
  /\ n_end' = n_end + 1
  /\ model_is_allocating_
  /\ halted' = "no"
  /\ ret'.status = "ok" \/ ret'.why \in {"head", "variables"}

\* The k-th (from 1) entry with needs_allocating, in allocation-info order.
NthPlanned(info, k) ==
  CHOOSE i \in 1..Len(info) :
    /\ info[i].needs_allocating
    /\ Cardinality({ j \in 1..(i - 1) : info[j].needs_allocating }) = k - 1

\* The pointer behind output_ptr of allocation-info entry i: the data field
\* of eval tensor i, or of scratch buffer handle i - tensor count.
OutputPtr(data, table, i) ==
  IF i <= Len(data) THEN data[i] ELSE table[i - Len(data)].data

\* C31: after the commit, the k-th entry with needs_allocating is the k-th
\* buffer added to the planner (its aligned size, its lifetime, its offline
\* offset) and its data pointer is buffer head plus the planner's offset of
\* buffer k; the data pointer of a tensor without needs_allocating is the
\* one it had before the end, unless it is a variable, which
\* AllocateVariables places afterwards.
C31_CommitMatchesPlan ==
  [][ EndCommitted =>
        LET info == allocation_info'
            reqs == CreatePlan(info)
            offsets == CalculateOffsets(reqs)
            count == Cardinality({ i \in 1..Len(info) : info[i].needs_allocating })
        IN  /\ Len(info) = TensorCount(model) + Len(handles)
            /\ Len(reqs) = count
            /\ \A k \in 1..count :
                 LET current == info[NthPlanned(info, k)]
                 IN  /\ reqs[k] = BufferRequirement(
                                    AlignSizeUp(current.bytes, kBufferAlignment),
                                    current.first_created, current.last_used,
                                    current.offline_offset)
                     /\ OutputPtr(eval_data', handles', NthPlanned(info, k))
                          = GetBufferHead(memory_allocator_) + offsets[k]
            /\ \A i \in 1..TensorCount(model) :
                 (~info[i].needs_allocating /\ ~model.tensors[i].is_variable)
                   => eval_data'[i] = eval_data[i]
    ]_<< n_end >>

\* A successful end whose allocation info has an entry without
\* needs_allocating before a planned one, and two planned entries at
\* different addresses, one of them a scratch buffer.
C31_Witness ==
  /\ EndSucceeded
  /\ Len(handles) > 0
  /\ \E i, j \in 1..TensorCount(model) :
       /\ i < j
       /\ ~allocation_info[i].needs_allocating
       /\ allocation_info[j].needs_allocating
       /\ eval_data[j] # handles[1].data
       /\ eval_data[j] # GetBufferHead(memory_allocator_)

\* A successful RequestScratchBufferInArena step while the allocator is
\* allocating.
RequestWhileAllocating ==
  /\ model_is_allocating_
  /\ ret'.op = "request_scratch"
  /\ ret'.status = "ok"
  /\ scratch_buffer_count_' = scratch_buffer_count_ + 1

\* The address of the handle record a request writes (line 730).
WrittenHandle ==
  scratch_buffer_handles_' + SizeofScratchBufferHandle * scratch_buffer_count_

\* C32: a request issued while the allocator is allocating writes its
\* handle record inside the head bytes its EnsureHeadSize reserved, below
\* everything handed out from the tail.
C32_HandleWrittenInHead ==
  [][ RequestWhileAllocating =>
        /\ WrittenHandle >= GetBufferHead(memory_allocator_')
        /\ WrittenHandle + SizeofScratchBufferHandle <= memory_allocator_'.head_
        /\ WrittenHandle + SizeofScratchBufferHandle <= GetTail(memory_allocator_')
    ]_<< scratch_buffer_count_ >>

\* An end step that returns ok for a model with scratch buffers.
EndOkWithHandles ==
  /\ n_end' = n_end + 1
  /\ model_is_allocating_
  /\ halted' = "no"
  /\ ret'.status = "ok"
  /\ scratch_buffer_count_ > 0

IdleOnlyThroughOkEnd ==
  /\ (model_is_allocating_ /\ ~model_is_allocating_')
       => (n_end' = n_end + 1 /\ ret'.op = "end" /\ ret'.status = "ok")
  /\ (model_is_allocating_ /\ n_end' = n_end + 1 /\ ret'.status = "error")
       => /\ model_is_allocating_'
          /\ ret'.why \in {"allocation_info", "offline_plan", "lifetime",
                           "planner_arena", "planner", "arena_too_small",
                           "head", "variables"}
  /\ (model_is_allocating_ /\ n_end' = n_end + 1)
       => ret'.why # "not_allocating"

\* C34: the allocator leaves the allocating state only through an end that
\* returns ok; an end that fails, the failure of the handle move included,
\* returns an error and leaves the allocator allocating, so that a later
\* end is accepted.
C34_FailedEndStaysAllocating ==
  [][ /\ IdleOnlyThroughOkEnd
      /\ (model_is_allocating_ /\ n_end' = n_end + 1 /\ HandleTableDoesNotFit)
           => /\ halted' = "no"
              /\ ret'.status = "error"
              /\ model_is_allocating_'
    ]_<< n_end, model_is_allocating_, halted >>

=============================================================================
